---- MODULE Spec2Model ----
(***************************************************************************)
(* Model of util::getErrorPagePaths and util::getHostname                  *)
(* (src/src/util/Utils.cpp).                                               *)
(*                                                                         *)
(* A std::string is modelled in two ways:                                  *)
(*   - the text the regular expressions and the path decomposition read    *)
(*     is a sequence of characters (one-character TLA+ strings; in a path  *)
(*     the tokens are "/" and whole path elements);                        *)
(*   - the text that is only written (the candidates) is a TLA+ string,    *)
(*     built with \o as the code builds it with operator<< and operator+.  *)
(***************************************************************************)
EXTENDS Naturals, Sequences, FiniteSets

VARIABLES
    op,         \* the function called last: "none", "getErrorPagePaths", "getHostname"
    basePath,   \* getErrorPagePaths: errorPageLocation, a sequence of path tokens
    language,   \* getErrorPagePaths: language, a sequence of subtags (joined by "-")
    threw,      \* the call left by an exception
    paths,      \* getErrorPagePaths: the returned vector
    url,        \* getHostname: url, a sequence of characters
    parts,      \* how the caller composed url (NoParts when it is an arbitrary string)
    hostname    \* getHostname: the returned string

vars == <<op, basePath, language, threw, paths, url, parts, hostname>>

(***************************************************************************)
(* Bounds of the model.                                                    *)
(***************************************************************************)
MaxDepth == 2       \* directory elements in a generated basePath
MaxSubtags == 3     \* subtags in a generated language tag
MaxAuthLen == 3     \* characters between "//" and the tail of a generated url
MaxUrlLen == 2      \* characters of a url drawn from the whole alphabet

RECURSIVE SeqsUpTo(_, _)
SeqsUpTo(S, n) ==
    IF n = 0 THEN {<<>>}
    ELSE LET shorter == SeqsUpTo(S, n - 1)
         IN  shorter \cup {Append(q, x) : q \in {p \in shorter : Len(p) = n - 1}, x \in S}

\* The text a sequence of tokens denotes.
RECURSIVE Str(_)
Str(s) == IF s = <<>> THEN "" ELSE Head(s) \o Str(Tail(s))

(***************************************************************************)
(* std::regex (ECMAScript grammar) as a backtracking matcher.              *)
(***************************************************************************)
LineTerminators == {"\n", "\r"}
Digits == {"0", "1"}
WordChars == {"h", "u", "_"} \cup Digits

Cls(S) == [t |-> "cls", neg |-> FALSE, set |-> S]
NCls(S) == [t |-> "cls", neg |-> TRUE, set |-> S]
AnyChar == [t |-> "cls", neg |-> TRUE, set |-> LineTerminators]
Bol == [t |-> "bol"]
Cat(rs) == [t |-> "cat", rs |-> rs]
Opt(r) == [t |-> "opt", r |-> r]
Star(r) == [t |-> "star", r |-> r]
Plus(r) == [t |-> "plus", r |-> r]
Grp(n, r) == [t |-> "grp", n |-> n, r |-> r]
Close(n, from) == [t |-> "close", n |-> n, from |-> from]

NGroups == 9
NoCaptures == [n \in 1..NGroups |-> <<>>]
NoMatch == [ok |-> FALSE, m |-> NoCaptures]

\* The executor: k is the continuation (the nodes still to match), i the
\* position in s. The alternatives of a quantifier are tried greedily, and the
\* first path that consumes all of s wins.
RECURSIVE Run(_, _, _, _)
Run(k, s, i, m) ==
    IF k = <<>> THEN (IF i = Len(s) + 1 THEN [ok |-> TRUE, m |-> m] ELSE NoMatch)
    ELSE
      LET n == Head(k)
          rest == Tail(k)
      IN  CASE n.t = "cls" ->
                 IF i <= Len(s) /\ ((s[i] \in n.set) # n.neg)
                 THEN Run(rest, s, i + 1, m) ELSE NoMatch
            [] n.t = "bol" ->
                 IF i = 1 THEN Run(rest, s, i, m) ELSE NoMatch
            [] n.t = "cat" -> Run(n.rs \o rest, s, i, m)
            [] n.t = "opt" ->
                 LET taken == Run(<<n.r>> \o rest, s, i, m)
                 IN  IF taken.ok THEN taken ELSE Run(rest, s, i, m)
            [] n.t = "star" ->
                 LET taken == Run(<<n.r, n>> \o rest, s, i, m)
                 IN  IF taken.ok THEN taken ELSE Run(rest, s, i, m)
            [] n.t = "plus" -> Run(<<n.r, Star(n.r)>> \o rest, s, i, m)
            [] n.t = "grp" -> Run(<<n.r, Close(n.n, i)>> \o rest, s, i, m)
            [] n.t = "close" ->
                 Run(rest, s, i, [m EXCEPT ![n.n] = SubSeq(s, n.from, i - 1)])

regex_match(s, re) == Run(<<re>>, s, 1, NoCaptures)

\* ^(([^:\/?#]+):)?(\/\/([^\/?#]*))?([^?#]*)(\?([^#]*))?(#(.*))?
rfc3986Regex ==
    Cat(<< Bol,
           Opt(Grp(1, Cat(<<Grp(2, Plus(NCls({":", "/", "?", "#"}))), Cls({":"})>>))),
           Opt(Grp(3, Cat(<<Cls({"/"}), Cls({"/"}), Grp(4, Star(NCls({"/", "?", "#"})))>>))),
           Grp(5, Star(NCls({"?", "#"}))),
           Opt(Grp(6, Cat(<<Cls({"?"}), Grp(7, Star(NCls({"#"})))>>))),
           Opt(Grp(8, Cat(<<Cls({"#"}), Grp(9, Star(AnyChar))>>))) >>)

\* Mutant: the host class without the dot.
authorityRegex_noDot ==
    Cat(<< Bol,
           Opt(Cat(<<Plus(Cls(WordChars \cup {":"})), Cls({"@"})>>)),
           Grp(1, Plus(Cls(WordChars))),
           Opt(Cls({":"})),
           Opt(Plus(Cls(Digits))) >>)

\* ^(?:[\w\:]+[@])?([\w.]+)(?:[:])?(?:[0-9]+)?
authorityRegex ==
    Cat(<< Bol,
           Opt(Cat(<<Plus(Cls(WordChars \cup {":"})), Cls({"@"})>>)),
           Grp(1, Plus(Cls(WordChars \cup {"."}))),
           Opt(Cls({":"})),
           Opt(Plus(Cls(Digits))) >>)

\* Mutant: an authority that does not match is returned as it is.
getHostname_authorityFallback(u) ==
    IF u = <<>> THEN <<>>
    ELSE LET first == regex_match(u, rfc3986Regex)
         IN  IF ~first.ok THEN <<>>
             ELSE LET authority == first.m[4]
                      second == regex_match(authority, authorityRegex)
                  IN  IF ~second.ok THEN authority ELSE second.m[1]

getHostname(u) ==
    IF u = <<>> THEN <<>>
    ELSE LET first == regex_match(u, rfc3986Regex)
         IN  IF ~first.ok THEN <<>>
             ELSE LET authority == first.m[4]
                      second == regex_match(authority, authorityRegex)
                  IN  IF ~second.ok THEN <<>> ELSE second.m[1]

(***************************************************************************)
(* boost::filesystem::path decomposition. A path is a sequence of tokens:  *)
(* "/" and path elements.                                                  *)
(***************************************************************************)
Front(s) == SubSeq(s, 1, Len(s) - 1)
Last(s) == s[Len(s)]

\* Trailing separators are dropped, except the root directory itself.
RECURSIVE StripSeparators(_)
StripSeparators(p) ==
    IF Len(p) > 1 /\ Last(p) = "/" THEN StripSeparators(Front(p)) ELSE p

path_filename(p) ==
    IF p = <<>> THEN ""
    ELSE IF p = <<"/">> THEN "/"
    ELSE IF Last(p) = "/" THEN "."
    ELSE Last(p)

path_parent_path(p) ==
    IF p = <<>> \/ p = <<"/">> THEN <<>>
    ELSE IF Last(p) = "/" THEN StripSeparators(p)
    ELSE StripSeparators(Front(p))

(***************************************************************************)
(* The filesystem fs::canonical reads: the directories and symbolic links  *)
(* that exist, each named by the elements of its canonical path, and the   *)
(* current directory.                                                      *)
(***************************************************************************)
Directories == {<<>>, <<"a">>, <<"a", "a">>}
SymlinkTarget == [l \in {<<"s">>} |-> <<"a", "a">>]
CurrentPath == <<"a">>

RECURSIVE ResolveElements(_, _)
ResolveElements(cur, elems) ==
    IF elems = <<>> THEN [ok |-> TRUE, dir |-> cur]
    ELSE LET e == Head(elems)
             next == Append(cur, e)
         IN  IF e = "." THEN ResolveElements(cur, Tail(elems))
             ELSE IF e = ".."
             THEN ResolveElements(IF cur = <<>> THEN cur ELSE Front(cur), Tail(elems))
             ELSE IF next \in DOMAIN SymlinkTarget
             THEN ResolveElements(SymlinkTarget[next], Tail(elems))
             ELSE IF next \in Directories
             THEN ResolveElements(next, Tail(elems))
             ELSE [ok |-> FALSE, dir |-> <<>>]

RECURSIVE AbsoluteString(_)
AbsoluteString(elems) ==
    IF elems = <<>> THEN "" ELSE "/" \o Head(elems) \o AbsoluteString(Tail(elems))

IsSeparator(t) == t = "/"
IsElement(t) == t # "/"

\* fs::canonical(p): absolute, no symlink, dot or dot-dot elements; fails
\* (filesystem_error) when p does not exist. [ok, string]
canonical(p) ==
    LET start == IF p # <<>> /\ IsSeparator(Head(p)) THEN <<>> ELSE CurrentPath
        r == ResolveElements(start, SelectSeq(p, IsElement))
    IN  [ok |-> r.ok,
         string |-> IF ~r.ok THEN "" ELSE IF r.dir = <<>> THEN "/" ELSE AbsoluteString(r.dir)]

(***************************************************************************)
(* BCP47::fromString. A tag is the sequence of its subtags, which "-"      *)
(* separates in the string.                                                *)
(***************************************************************************)
LanguageSubtags == {"zh"}
ScriptSubtags == {"Hant"}
RegionSubtags == {"TW"}

NotParsed == [ok |-> FALSE, language |-> "", hasScript |-> FALSE, script |-> "",
              hasRegion |-> FALSE, region |-> ""]

BCP47_fromString(tag) ==
    IF tag = <<>> \/ Head(tag) \notin LanguageSubtags THEN NotParsed
    ELSE LET afterLanguage == Tail(tag)
             hasScript == afterLanguage # <<>> /\ Head(afterLanguage) \in ScriptSubtags
             afterScript == IF hasScript THEN Tail(afterLanguage) ELSE afterLanguage
             hasRegion == afterScript # <<>> /\ Head(afterScript) \in RegionSubtags
             afterRegion == IF hasRegion THEN Tail(afterScript) ELSE afterScript
         IN  IF afterRegion # <<>> THEN NotParsed
             ELSE [ok |-> TRUE, language |-> Head(tag),
                   hasScript |-> hasScript,
                   script |-> IF hasScript THEN Head(afterLanguage) ELSE "",
                   hasRegion |-> hasRegion,
                   region |-> IF hasRegion THEN Head(afterScript) ELSE ""]

(***************************************************************************)
(* util::getErrorPagePaths                                                 *)
(***************************************************************************)
\* Mutant: the region segment is written whether or not there is a region.
scriptCandidate_regionAlways(searchPath, pieces, filename) ==
    searchPath \o "/resources/" \o pieces.language \o "/" \o pieces.script
        \o "/" \o pieces.region \o "/html/" \o filename

scriptCandidate(searchPath, pieces, filename) ==
    searchPath \o "/resources/" \o pieces.language \o "/" \o pieces.script
        \o (IF pieces.hasRegion THEN "/" \o pieces.region ELSE "")
        \o "/html/" \o filename

\* Mutant: the script is written where the region belongs.
regionCandidate_scriptSegment(searchPath, pieces, filename) ==
    searchPath \o "/resources/" \o pieces.language \o "/" \o pieces.script \o "/html/"
        \o filename

regionCandidate(searchPath, pieces, filename) ==
    searchPath \o "/resources/" \o pieces.language \o "/" \o pieces.region \o "/html/"
        \o filename

\* Mutant: the language segment is left out.
languageCandidate_noLanguage(searchPath, pieces, filename) ==
    searchPath \o "/resources/" \o "/html/" \o filename

languageCandidate(searchPath, pieces, filename) ==
    searchPath \o "/resources/" \o pieces.language \o "/html/" \o filename

genericCandidate(searchPath, filename) ==
    searchPath \o "/resources/html/" \o filename

\* Mutant: the region candidate is appended before the script candidate.
localizedCandidates_regionFirst(searchPath, pieces, filename) ==
    IF pieces.ok
    THEN (IF pieces.hasRegion THEN <<regionCandidate(searchPath, pieces, filename)>> ELSE <<>>)
         \o (IF pieces.hasScript THEN <<scriptCandidate(searchPath, pieces, filename)>> ELSE <<>>)
         \o <<languageCandidate(searchPath, pieces, filename)>>
    ELSE <<>>

localizedCandidates(searchPath, pieces, filename) ==
    IF pieces.ok
    THEN (IF pieces.hasScript THEN <<scriptCandidate(searchPath, pieces, filename)>> ELSE <<>>)
         \o (IF pieces.hasRegion THEN <<regionCandidate(searchPath, pieces, filename)>> ELSE <<>>)
         \o <<languageCandidate(searchPath, pieces, filename)>>
    ELSE <<>>

Returned(v) == [threw |-> FALSE, result |-> v]
Thrown == [threw |-> TRUE, result |-> <<>>]

\* Mutant: the last candidate is built on the canonical directory.
getErrorPagePaths_canonicalLast(errorPageLocation, lang) ==
    IF errorPageLocation = <<>> THEN Returned(<<>>)
    ELSE LET filename == path_filename(errorPageLocation)
             searchPath == canonical(path_parent_path(errorPageLocation))
         IN  IF ~searchPath.ok THEN Thrown
             ELSE LET bcp47Pieces == BCP47_fromString(lang)
                  IN  Returned(localizedCandidates(searchPath.string, bcp47Pieces, filename)
                               \o <<genericCandidate(searchPath.string, filename),
                                    searchPath.string \o "/" \o filename>>)

\* Mutant: no early return for an empty errorPageLocation.
getErrorPagePaths_noEmptyCheck(errorPageLocation, lang) ==
    LET filename == path_filename(errorPageLocation)
        searchPath == canonical(path_parent_path(errorPageLocation))
    IN  IF ~searchPath.ok THEN Thrown
        ELSE LET bcp47Pieces == BCP47_fromString(lang)
             IN  Returned(localizedCandidates(searchPath.string, bcp47Pieces, filename)
                          \o <<genericCandidate(searchPath.string, filename),
                               Str(errorPageLocation)>>)

\* Mutant: a directory that cannot be canonicalized leaves the original path
\* as the only candidate instead of an exception.
getErrorPagePaths_errorSwallowed(errorPageLocation, lang) ==
    IF errorPageLocation = <<>> THEN Returned(<<>>)
    ELSE LET filename == path_filename(errorPageLocation)
             searchPath == canonical(path_parent_path(errorPageLocation))
         IN  IF ~searchPath.ok THEN Returned(<<Str(errorPageLocation)>>)
             ELSE LET bcp47Pieces == BCP47_fromString(lang)
                  IN  Returned(localizedCandidates(searchPath.string, bcp47Pieces, filename)
                               \o <<genericCandidate(searchPath.string, filename),
                                    Str(errorPageLocation)>>)

getErrorPagePaths(errorPageLocation, lang) ==
    IF errorPageLocation = <<>> THEN Returned(<<>>)
    ELSE LET filename == path_filename(errorPageLocation)
             searchPath == canonical(path_parent_path(errorPageLocation))
         IN  IF ~searchPath.ok THEN Thrown
             ELSE LET bcp47Pieces == BCP47_fromString(lang)
                  IN  Returned(localizedCandidates(searchPath.string, bcp47Pieces, filename)
                               \o <<genericCandidate(searchPath.string, filename),
                                    Str(errorPageLocation)>>)

(***************************************************************************)
(* The callers' inputs.                                                    *)
(***************************************************************************)
ElementNames == {"a", "s", "x", ".."}
FileNames == {"f.html"}

RECURSIVE JoinElements(_)
JoinElements(elems) ==
    IF elems = <<>> THEN <<>>
    ELSE IF Len(elems) = 1 THEN elems
    ELSE <<Head(elems), "/">> \o JoinElements(Tail(elems))

MakePath(abs, elems) == (IF abs THEN <<"/">> ELSE <<>>) \o JoinElements(elems)

BasePaths ==
    {<<>>, <<"/">>}
    \cup {MakePath(abs, Append(d, f)) :
            abs \in BOOLEAN, d \in SeqsUpTo(ElementNames, MaxDepth), f \in FileNames}
    \cup {Append(MakePath(abs, d), "/") :
            abs \in BOOLEAN, d \in SeqsUpTo(ElementNames, MaxDepth) \ {<<>>}}

LanguageTags ==
    SeqsUpTo(LanguageSubtags \cup ScriptSubtags \cup RegionSubtags, MaxSubtags)

\* A url composed as [scheme:]//[userinfo@]host[:][port]tail.
NoParts == [composed |-> FALSE, scheme |-> <<>>, userinfo |-> <<>>, host |-> <<>>,
            colon |-> FALSE, port |-> <<>>, tail |-> <<>>]
Schemes == {<<>>, <<"h">>, <<"h", "-", "1">>}
UserInfos == {<<>>, <<"u">>, <<"u", ":", "1">>}
Hosts == {<<"h">>, <<"1">>, <<".">>, <<"h", ".", "h">>, <<"h", "1">>}
Ports == {<<>>, <<"1">>, <<"1", "0">>}
Tails == {<<>>, <<"/", "h">>, <<"/", "\n">>, <<"?", "h", "\n">>, <<"#", "h">>,
          <<"/", "h", "?", "h", "#", "h">>, <<"#", "h", "\n">>}

Compose(p) ==
    (IF p.scheme = <<>> THEN <<>> ELSE Append(p.scheme, ":"))
    \o <<"/", "/">>
    \o (IF p.userinfo = <<>> THEN <<>> ELSE Append(p.userinfo, "@"))
    \o p.host
    \o (IF p.colon THEN <<":">> ELSE <<>>)
    \o p.port
    \o p.tail

AuthorityChars == {"h", "1", ":", "@", ".", "-"}
UrlChars == AuthorityChars \cup {"/", "?", "#", "\n"}
Prefixes == {<<>>, <<"/", "/">>, <<"h", ":", "/", "/">>}
Suffixes == {<<>>, <<"/", "h">>, <<"?", "h">>, <<"#", "\n">>}
Urls ==
    SeqsUpTo(UrlChars, MaxUrlLen)
    \cup {pre \o mid \o suf :
            pre \in Prefixes, mid \in SeqsUpTo(AuthorityChars, MaxAuthLen), suf \in Suffixes}

(***************************************************************************)
(* The state machine: a caller calls one of the two functions, then drops  *)
(* the result.                                                             *)
(***************************************************************************)
Init ==
    /\ op = "none"
    /\ basePath = <<>>
    /\ language = <<>>
    /\ threw = FALSE
    /\ paths = <<>>
    /\ url = <<>>
    /\ parts = NoParts
    /\ hostname = <<>>

CallGetErrorPagePaths ==
    /\ op = "none"
    /\ \E p \in BasePaths, t \in LanguageTags :
          LET r == getErrorPagePaths(p, t)
          IN  /\ op' = "getErrorPagePaths"
              /\ basePath' = p
              /\ language' = t
              /\ threw' = r.threw
              /\ paths' = r.result
    /\ UNCHANGED <<url, parts, hostname>>

CallGetHostname ==
    /\ op = "none"
    /\ \E u \in Urls :
          /\ op' = "getHostname"
          /\ url' = u
          /\ parts' = NoParts
          /\ hostname' = getHostname(u)
    /\ UNCHANGED <<basePath, language, threw, paths>>

CallGetHostnameComposed ==
    /\ op = "none"
    /\ \E s \in Schemes, ui \in UserInfos, h \in Hosts, c \in BOOLEAN,
          po \in Ports, t \in Tails :
          LET p == [composed |-> TRUE, scheme |-> s, userinfo |-> ui, host |-> h,
                    colon |-> c, port |-> po, tail |-> t]
          IN  /\ op' = "getHostname"
              /\ url' = Compose(p)
              /\ parts' = p
              /\ hostname' = getHostname(Compose(p))
    /\ UNCHANGED <<basePath, language, threw, paths>>

Drop ==
    /\ op # "none"
    /\ op' = "none"
    /\ basePath' = <<>>
    /\ language' = <<>>
    /\ threw' = FALSE
    /\ paths' = <<>>
    /\ url' = <<>>
    /\ parts' = NoParts
    /\ hostname' = <<>>

Next ==
    \/ CallGetErrorPagePaths
    \/ CallGetHostname
    \/ CallGetHostnameComposed
    \/ Drop

Spec == Init /\ [][Next]_vars

(***************************************************************************)
(* Properties. The terms the statements use, read off the recorded call.   *)
(***************************************************************************)
SearchPath == canonical(path_parent_path(basePath))
Dir == SearchPath.string
FileName == path_filename(basePath)
Tag == BCP47_fromString(language)
\* A call with a non-empty basePath whose parent directory exists.
Resolving == op = "getErrorPagePaths" /\ basePath # <<>> /\ SearchPath.ok

C5_EmptyBasePath ==
    (op = "getErrorPagePaths" /\ basePath = <<>>) => (~threw /\ paths = <<>>)

C5_Witness ==
    /\ op = "getErrorPagePaths"
    /\ basePath = <<>>
    /\ language = <<"zh", "Hant", "TW">>
    /\ paths = <<>>

\* C6: the call fails exactly when basePath is not empty and its parent
\* directory cannot be canonicalized, whatever the tag, and a failed call
\* returns no candidate.
C6_OnlyDirectoryFails ==
    (op = "getErrorPagePaths") =>
        /\ threw <=> (basePath # <<>> /\ ~SearchPath.ok)
        /\ threw => paths = <<>>

\* The directory does not exist and the tag does not parse either.
C6_Witness ==
    /\ op = "getErrorPagePaths"
    /\ basePath = <<"/", "x", "/", "f.html">>
    /\ language = <<"TW">>
    /\ threw
    /\ paths = <<>>

\* The fragment of a tail: what follows its first "#".
LineTerminatorInFragment(t) ==
    \E i, j \in 1..Len(t) : i < j /\ t[i] = "#" /\ t[j] \in LineTerminators

Delimiters(u) == {i \in 1..Len(u) : u[i] \in {":", "/", "?", "#"}}
FirstIn(S) == CHOOSE i \in S : \A j \in S : i <= j
SchemeLength(u) ==
    LET d == Delimiters(u)
    IN  IF d # {} /\ FirstIn(d) > 1 /\ u[FirstIn(d)] = ":" THEN FirstIn(d) ELSE 0
HierPart(u) == SubSeq(u, SchemeLength(u) + 1, Len(u))
HasAuthority(u) ==
    LET h == HierPart(u) IN Len(h) >= 2 /\ h[1] = "/" /\ h[2] = "/"
AuthorityOf(u) ==
    LET a == SubSeq(HierPart(u), 3, Len(HierPart(u)))
        ends == {i \in 1..Len(a) : a[i] \in {"/", "?", "#"}}
    IN  IF ends = {} THEN a ELSE SubSeq(a, 1, FirstIn(ends) - 1)

AllIn(s, S) == \A i \in 1..Len(s) : s[i] \in S
\* a is [userinfo@]host[:][port] as a whole.
AuthorityShape(a) ==
    \E i, j, k \in 0..Len(a) :
        /\ i <= j /\ j <= k
        /\ \/ i = 0
           \/ i >= 2 /\ a[i] = "@" /\ AllIn(SubSeq(a, 1, i - 1), WordChars \cup {":"})
        /\ j > i /\ AllIn(SubSeq(a, i + 1, j), WordChars \cup {"."})
        /\ k = j \/ (k = j + 1 /\ a[k] = ":")
        /\ AllIn(SubSeq(a, k + 1, Len(a)), Digits)

\* C8: no call of getHostname raises, and the result is empty when the url is
\* empty, has no authority or an empty one, or has an authority that is not
\* as a whole of the shape [userinfo@]host[:][port].
C8_EmptyWhenNoHost ==
    (op = "getHostname") =>
        /\ ~threw
        /\ (\/ url = <<>>
            \/ ~HasAuthority(url)
            \/ AuthorityOf(url) = <<>>
            \/ ~AuthorityShape(AuthorityOf(url))) => hostname = <<>>

\* A host with a character that is neither a word character nor a dot: no
\* prefix of it is returned.
C8_Witness ==
    /\ op = "getHostname"
    /\ url = <<"/", "/", "h", "-", "h">>
    /\ ~threw
    /\ hostname = <<>>

Count(b) == IF b THEN 1 ELSE 0

====
